---------------------------- MODULE Spec2Model ----------------------------
(***************************************************************************)
(* Model of the JobYaari scraper's fetch controller (scraper.py:            *)
(* CircuitBreaker, JobYaariScraperEnhanced.fetch_page) and of the          *)
(* knowledge-base persistence of the chatbot (app.py: save_knowledge_base, *)
(* refresh_and_scrape_data) together with the scraper's command-line       *)
(* entry point.                                                            *)
(*                                                                         *)
(* Time is counted in ticks of half a second, so that the jitter of        *)
(* random.uniform(0, 0.5) has its two extreme values 0 and 1 tick.  The    *)
(* program reads the clock only in time.time() - last_failure_time, so the *)
(* model keeps that difference (since_failure) instead of the two absolute *)
(* times, and stops counting it one tick past the breaker's timeout.       *)
(***************************************************************************)
EXTENDS Integers, Sequences, FiniteSets, TLC

VARIABLES
    circuit_breaker,   \* scraper.circuit_breaker: failure_count, state and
                       \* since_failure = time.time() - last_failure_time
    request_count,     \* scraper.request_count
    failed_requests,   \* scraper.failed_requests
    max_retries,       \* the max_retries argument the scraper was built with
    fpc,               \* position of fetch_page: "idle" or "retry" (recursive call pending)
    retry_count,       \* retry_count argument of the pending recursive fetch_page call
    result,            \* what the last finished fetch_page call returned
    calls,             \* number of top-level fetch_page calls made so far
    trace,             \* the frames of the current (or last) fetch_page call: what
                       \* session.get did, the breaker state it was sent in,
                       \* whether handling the response raised, and the
                       \* Retry-After header of a 429
    delays,            \* backoff delays (without jitter) slept in that call
    postSleep,         \* time slept after the response of the latest frame
    consecFails,       \* consecutive top-level calls that returned None since the last 200
    hoReqs,            \* requests issued since the breaker last turned HALF_OPEN
    paused,            \* the caller has paused since the last fetch_page call
    KNOWLEDGE_BASE,    \* app.KNOWLEDGE_BASE: a dict, as the sequence of its items
    kbFile,            \* knowledge_base.json on disk
    backupFile,        \* knowledge_base.json.backup on disk
    rpc,               \* position of the server inside refresh / save_knowledge_base
    report,            \* what the last /api/refresh request answered
    runs,              \* scraping runs made so far
    lastRun,           \* entry point and outcome of the latest run
    fileBefore,        \* knowledge_base.json as it was when the latest save began
    lastSave,          \* how the latest save_knowledge_base ended
    job_nodes,         \* scrape_category: the candidate nodes of the page
    category,          \* scrape_category: its category argument
    max_jobs,          \* scrape_category: its max_jobs argument
    idx,               \* scrape_category: position of the loop over job_nodes
    jobs,              \* scrape_category: the records kept so far
    seen_urls,         \* scrape_category: the normalized URLs kept so far
    picked,            \* the positions in job_nodes the kept records came from
    ppc,               \* position of scrape_category: "loop" or "done"
    categories,        \* scrape_all_categories: its categories argument
    site,              \* what the site holds for each listed category
    results,           \* scrape_all_categories: the dict built so far
    cat_idx,           \* scrape_all_categories: position in categories
    spc,               \* position of scrape_all_categories and its caller
    fetchLog,          \* how fetch_page ended for each category done so far
    kb0,               \* the KNOWLEDGE_BASE the process started its save with
    loaded,            \* what load_knowledge_base returned ("none": not called)
    soup,              \* _find_job_nodes: the elements of the document, in order
    sel_idx,           \* _find_job_nodes: position in its selectors list
    selected,          \* _find_job_nodes: the positions of the elements it returns (nodes)
    used,              \* the selector that served the document (0: the fallback)
    npc,               \* position of _find_job_nodes: "try" or "done"
    text,              \* _extract_qualification: the words of its text argument
    q_idx,             \* _extract_qualification: position in its table
    qualification,     \* _extract_qualification: the value returned
    qpc,               \* position of _extract_qualification: "try" or "done"
    REQUEST_CACHE,     \* per query: whether a response is stored, and its age
    lru,               \* the memo of lru_cache around get_cached_response
    lastQuery,         \* the latest query_ai_model call and where its answer came from
    queries,           \* number of query_ai_model calls so far
    waited,            \* time has passed since the latest call
    tpc,               \* position of each request thread inside /api/refresh
    tresults,          \* refresh_and_scrape_data: the results of each thread's run
    handle,            \* where the file each thread holds open can be found now
    dumping,           \* the text each thread's json.dump is writing
    written,           \* tokens of it each thread has written so far
    file0              \* knowledge_base.json as it was before the requests came

fetchVars == <<circuit_breaker, request_count, failed_requests, max_retries,
               fpc, retry_count, result, calls, trace, delays, postSleep,
               consecFails, hoReqs, paused>>

persistVars == <<KNOWLEDGE_BASE, kbFile, backupFile, rpc, report, runs, lastRun,
                 fileBefore, lastSave>>

parseVars == <<job_nodes, category, max_jobs, idx, jobs, seen_urls, picked, ppc>>

runVars == <<categories, site, results, cat_idx, spc, fetchLog>>

loadVars == <<kb0, loaded>>

findVars == <<soup, sel_idx, selected, used, npc>>

qualVars == <<text, q_idx, qualification, qpc>>

cacheVars == <<REQUEST_CACHE, lru, lastQuery, queries, waited>>

threadVars == <<tpc, tresults, handle, dumping, written, file0>>

auxVars == <<findVars, qualVars, cacheVars, threadVars>>

vars == <<fetchVars, persistVars, parseVars, runVars, loadVars, auxVars>>

-----------------------------------------------------------------------------
(* Program constants                                                       *)

TicksPerSecond == 2
None == -1                       \* last_failure_time = None
failure_threshold == 3           \* CircuitBreaker(failure_threshold=3, ...)
BreakerTimeoutSeconds == 120     \* CircuitBreaker(..., timeout=120)
DefaultMaxRetries == 3           \* __init__(..., max_retries=3, ...)
DefaultRetryAfter == 10          \* resp.headers.get("Retry-After", 10)
CategoryDelaySeconds == 3        \* scrape_all_categories(delay=3)

timeout == BreakerTimeoutSeconds * TicksPerSecond

(* Bounds of the model                                                     *)
MaxCalls == 4                    \* top-level fetch_page calls explored
MaxFailures == 5                 \* failures counted by a breaker used freely

\* pauses between two calls made on a breaker, in ticks
BreakerPauses == { CategoryDelaySeconds * TicksPerSecond, timeout, timeout + 1 }

-----------------------------------------------------------------------------
(* CircuitBreaker                                                          *)

CircuitBreakerInit ==
    [failure_count |-> 0, since_failure |-> None, state |-> "CLOSED"]

\* d ticks pass: time.time() grows, last_failure_time stays
Later(cb, d) ==
    IF cb.since_failure = None THEN cb
    ELSE [cb EXCEPT !.since_failure =
              IF cb.since_failure + d > timeout THEN timeout + 1
              ELSE cb.since_failure + d]

\* a call_failed that opens the breaker one failure late
call_failed_OpensLate(cb) ==
    LET n == cb.failure_count + 1 IN
    [failure_count |-> n,
     since_failure |-> 0,
     state |-> IF n > failure_threshold THEN "OPEN" ELSE cb.state]

call_failed(cb) ==
    LET n == cb.failure_count + 1 IN
    [failure_count |-> n,
     since_failure |-> 0,
     state |-> IF n >= failure_threshold THEN "OPEN" ELSE cb.state]

\* a call_succeeded that forgets to zero the counter
call_succeeded_KeepsCount(cb) ==
    [cb EXCEPT !.state = "CLOSED"]

call_succeeded(cb) ==
    [cb EXCEPT !.failure_count = 0, !.state = "CLOSED"]

\* a can_attempt that compares with >= instead of >
can_attempt_Inclusive(cb) ==
    IF cb.state = "CLOSED" THEN [ok |-> TRUE, cb |-> cb]
    ELSE IF cb.state = "OPEN"
         THEN IF cb.since_failure >= timeout
              THEN [ok |-> TRUE, cb |-> [cb EXCEPT !.state = "HALF_OPEN"]]
              ELSE [ok |-> FALSE, cb |-> cb]
         ELSE [ok |-> TRUE, cb |-> cb]

\* a can_attempt that forgets the failures when it refuses
can_attempt_ForgetsOnRefusal(cb) ==
    IF cb.state = "CLOSED" THEN [ok |-> TRUE, cb |-> cb]
    ELSE IF cb.state = "OPEN"
         THEN IF cb.since_failure > timeout
              THEN [ok |-> TRUE, cb |-> [cb EXCEPT !.state = "HALF_OPEN"]]
              ELSE [ok |-> FALSE, cb |-> [cb EXCEPT !.failure_count = 0]]
         ELSE [ok |-> TRUE, cb |-> cb]

\* a can_attempt that closes the breaker itself once the timeout is over
can_attempt_ClosesAtOnce(cb) ==
    IF cb.state = "CLOSED" THEN [ok |-> TRUE, cb |-> cb]
    ELSE IF cb.state = "OPEN"
         THEN IF cb.since_failure > timeout
              THEN [ok |-> TRUE, cb |-> [cb EXCEPT !.state = "CLOSED"]]
              ELSE [ok |-> FALSE, cb |-> cb]
         ELSE [ok |-> TRUE, cb |-> cb]

\* can_attempt returns a boolean and may move the breaker to HALF_OPEN
can_attempt(cb) ==
    IF cb.state = "CLOSED" THEN [ok |-> TRUE, cb |-> cb]
    ELSE IF cb.state = "OPEN"
         THEN IF cb.since_failure > timeout
              THEN [ok |-> TRUE, cb |-> [cb EXCEPT !.state = "HALF_OPEN"]]
              ELSE [ok |-> FALSE, cb |-> cb]
         ELSE [ok |-> TRUE, cb |-> cb]

\* The three methods called in any order on a breaker, with time passing
\* between the calls.  failure_count grows without limit in the program;
\* the model stops counting at MaxFailures.
breakerRest == <<request_count, failed_requests, max_retries, fpc, retry_count,
                 result, calls, trace, delays, postSleep, consecFails, hoReqs,
                 paused, persistVars, parseVars, runVars, loadVars, auxVars>>

CallFailed ==
    /\ circuit_breaker.failure_count < MaxFailures
    /\ circuit_breaker' = call_failed(circuit_breaker)
    /\ UNCHANGED breakerRest

CallSucceeded ==
    /\ circuit_breaker' = call_succeeded(circuit_breaker)
    /\ UNCHANGED breakerRest

CanAttempt ==
    /\ circuit_breaker' = can_attempt(circuit_breaker).cb
    /\ UNCHANGED breakerRest

TimePasses(d) ==
    /\ circuit_breaker' = Later(circuit_breaker, d)
    /\ UNCHANGED breakerRest

BreakerNext ==
    \/ CallFailed
    \/ CallSucceeded
    \/ CanAttempt
    \/ \E d \in BreakerPauses : TimePasses(d)

-----------------------------------------------------------------------------
(* fetch_page                                                              *)

\* What session.get can do: a status class or an exception class.
Outcomes == {"200", "429", "5xx", "404", "timeout", "conn", "reqerr"}

\* Retry-After header of a 429: absent, an integer of seconds, or an HTTP date
RetryAfterHeaders ==
    { [kind |-> "absent", secs |-> 0],
      [kind |-> "date", secs |-> 0],
      [kind |-> "int", secs |-> 1] }

Jitters == {0, 1}

RECURSIVE Pow2(_)
Pow2(n) == IF n = 0 THEN 1 ELSE 2 * Pow2(n - 1)

\* a backoff that shrinks with the retry number
Backoff_Shrinking(rc) == Pow2(3 - rc) * TicksPerSecond

\* sleep_time = (2 ** retry_count) + jitter, without the jitter, in ticks
Backoff(rc) == Pow2(rc) * TicksPerSecond

\* retry limits written into fetch_page
StatusRetryLimit == 2            \* 429 and 5xx: if retry_count < 2
TimeoutRetryLimit == 2           \* Timeout: if retry_count < 2
ConnRetryLimit == 1              \* ConnectionError: if retry_count < 1

\* does the handler of this outcome record a failure before it decides to retry?
FailsBeforeRetry(out) == out \in {"timeout", "conn", "reqerr"}

\* a fetch_page that gives connection errors the retries of the other kinds
RetryLimit_Uniform(out) ==
    IF out \in {"429", "5xx", "timeout", "conn"} THEN StatusRetryLimit ELSE 0

\* a fetch_page that also retries the other statuses
RetryLimit_Retry404(out) ==
    IF out \in {"429", "5xx", "404"} THEN StatusRetryLimit
    ELSE IF out = "timeout" THEN TimeoutRetryLimit
    ELSE IF out = "conn" THEN ConnRetryLimit
    ELSE 0

\* a fetch_page that retries timeouts once more
RetryLimit_OneMore(out) ==
    IF out \in {"429", "5xx"} THEN StatusRetryLimit
    ELSE IF out = "timeout" THEN TimeoutRetryLimit + 1
    ELSE IF out = "conn" THEN ConnRetryLimit
    ELSE 0

RetryLimit(out) ==
    IF out \in {"429", "5xx"} THEN StatusRetryLimit
    ELSE IF out = "timeout" THEN TimeoutRetryLimit
    ELSE IF out = "conn" THEN ConnRetryLimit
    ELSE 0

\* int(resp.headers.get("Retry-After", 10)) followed by time.sleep: both raise
\* ValueError, the first on a header that is not an integer, the second on a
\* negative number
RetryAfterRaises(h) == h.kind = "date" \/ (h.kind = "int" /\ h.secs < 0)

RetryAfterSeconds(h) == IF h.kind = "absent" THEN DefaultRetryAfter ELSE h.secs

\* One invocation of fetch_page(url, rc), the recursive ones included; tr and
\* dl are the frames and backoff delays of the call so far.  Only the sleeps
\* advance the clock: the time session.get itself takes is not counted.
FetchFrame(rc, tr, dl, out, jit, hdr) ==
    LET ca == can_attempt(circuit_breaker) IN
    IF ~ca.ok
    THEN \* breaker refuses: return None before anything else
         /\ circuit_breaker' = ca.cb
         /\ result' = "None"
         /\ fpc' = "idle"
         /\ retry_count' = 0
         /\ trace' = Append(tr, [out |-> "refused", state |-> ca.cb.state,
                                  raised |-> FALSE, hint |-> "none", secs |-> 0])
         /\ delays' = dl
         /\ consecFails' = consecFails + 1
         /\ postSleep' = 0
         /\ UNCHANGED <<request_count, failed_requests, hoReqs>>
    ELSE
      LET slept == IF rc > 0 THEN Backoff(rc) + jit ELSE 0
          raRaises == out = "429" /\ RetryAfterRaises(hdr)
          after == IF out = "429" /\ ~raRaises
                   THEN RetryAfterSeconds(hdr) * TicksPerSecond ELSE 0
          cb2 == Later(ca.cb, slept + after)
          retries == ~raRaises /\ rc < RetryLimit(out)
          records == out # "200" /\ (raRaises \/ FailsBeforeRetry(out) \/ ~retries)
      IN
        /\ request_count' = request_count + 1
        /\ delays' = IF rc > 0 THEN Append(dl, Backoff(rc)) ELSE dl
        /\ postSleep' = after
        /\ trace' = Append(tr, [out |-> out, state |-> ca.cb.state,
                                 raised |-> raRaises,
                                 hint |-> IF out = "429" THEN hdr.kind ELSE "none",
                                 secs |-> IF out = "429" /\ hdr.kind = "int"
                                          THEN hdr.secs ELSE 0])
        /\ hoReqs' = IF ca.cb.state # "HALF_OPEN" THEN 0
                     ELSE IF circuit_breaker.state = "OPEN" THEN 1
                     ELSE hoReqs + 1
        /\ circuit_breaker' = IF out = "200" THEN call_succeeded(cb2)
                              ELSE IF records THEN call_failed(cb2)
                              ELSE cb2
        /\ failed_requests' = IF records THEN failed_requests + 1 ELSE failed_requests
        /\ IF out = "200"
           THEN /\ result' = "resp"
                /\ fpc' = "idle"
                /\ retry_count' = 0
                /\ consecFails' = 0
           ELSE IF retries
           THEN /\ result' = "pending"
                /\ fpc' = "retry"
                /\ retry_count' = rc + 1
                /\ UNCHANGED consecFails
           ELSE /\ result' = "None"
                /\ fpc' = "idle"
                /\ retry_count' = 0
                /\ consecFails' = consecFails + 1

\* A caller (scrape_category) calls fetch_page(url): retry_count = 0
FetchPage(out, jit, hdr) ==
    /\ fpc = "idle"
    /\ calls < MaxCalls
    /\ calls' = calls + 1
    /\ paused' = FALSE
    /\ FetchFrame(0, << >>, << >>, out, jit, hdr)
    /\ UNCHANGED <<max_retries, persistVars, parseVars, runVars, loadVars, auxVars>>

\* return self.fetch_page(url, retry_count + 1)
FetchPageRetry(out, jit, hdr) ==
    /\ fpc = "retry"
    /\ FetchFrame(retry_count, trace, delays, out, jit, hdr)
    /\ UNCHANGED <<calls, max_retries, paused, persistVars, parseVars, runVars, loadVars, auxVars>>

\* Time passes between two calls: the polite delay of scrape_all_categories,
\* or any longer pause of the caller
ElapseChoices ==
    { CategoryDelaySeconds * TicksPerSecond, timeout, timeout + 1 }

Elapse(d) ==
    /\ fpc = "idle"
    /\ ~paused
    /\ paused' = TRUE
    /\ circuit_breaker' = Later(circuit_breaker, d)
    /\ UNCHANGED <<request_count, failed_requests, max_retries,
                   fpc, retry_count, result, calls, trace, delays, postSleep,
                   consecFails, hoReqs, persistVars, parseVars, runVars, loadVars, auxVars>>

FetchInit ==
    /\ circuit_breaker = CircuitBreakerInit
    /\ request_count = 0
    /\ failed_requests = 0
    /\ max_retries = DefaultMaxRetries
    /\ paused = FALSE
    /\ fpc = "idle"
    /\ retry_count = 0
    /\ result = "None"
    /\ calls = 0
    /\ trace = << >>
    /\ delays = << >>
    /\ postSleep = 0
    /\ consecFails = 0
    /\ hoReqs = 0

-----------------------------------------------------------------------------
(* Knowledge base: app.py                                                  *)

\* categories=["Engineering", "Science", "Commerce", "Education"]
Categories == <<"Engineering", "Science", "Commerce", "Education">>

\* the job lists a category can come back with (a job is an opaque record)
JobLists == { << >>, <<"j1">> }

MaxRuns == 2                     \* scraping runs explored

\* KNOWLEDGE_BASE = {}
EmptyDict == << >>

\* what scrape_all_categories can return: one item per category, in order
ScrapeResults ==
    { [i \in 1..Len(Categories) |-> [cat |-> Categories[i], jobs |-> f[i]]] :
         f \in [1..Len(Categories) -> JobLists] }

RECURSIVE TotalJobs(_)
\* sum(len(v) for v in kb.values())
TotalJobs(kb) ==
    IF kb = << >> THEN 0 ELSE Len(kb[1].jobs) + TotalJobs(Tail(kb))

\* counts that leave out the categories without jobs
CategoryCounts_OmitsEmpty(kb) ==
    LET full == SelectSeq(kb, LAMBDA e : e.jobs # << >>)
    IN [i \in 1..Len(full) |-> [cat |-> full[i].cat, n |-> Len(full[i].jobs)]]

\* {k: len(v) for k, v in kb.items()}
CategoryCounts(kb) == [i \in 1..Len(kb) |-> [cat |-> kb[i].cat, n |-> Len(kb[i].jobs)]]

RECURSIVE Serialize(_)
\* json.dump(kb, f): the text of the file, token by token
Serialize(kb) ==
    IF kb = << >> THEN << >>
    ELSE <<kb[1].cat, "[">> \o kb[1].jobs \o <<"]">> \o Serialize(Tail(kb))

JsonText(kb) == <<"{">> \o Serialize(kb) \o <<"}">>

\* where a write of txt can stop: before the first token, half-way, or at the end
WritePoints(txt) == {0, Len(txt) \div 2, Len(txt)}

Absent == [exists |-> FALSE, text |-> << >>]
FileWith(txt) == [exists |-> TRUE, text |-> txt]

NoReport == [success |-> FALSE, message |-> "none", total_jobs |-> 0,
             categories |-> << >>]

\* route_refresh builds its answer from refresh_and_scrape_data's result and
\* from KNOWLEDGE_BASE as it is at that moment
Answer(success, message, kb) ==
    [success |-> success, message |-> message, total_jobs |-> TotalJobs(kb),
     categories |-> CategoryCounts(kb)]

\* an assignment that keeps the old list of a category the run left empty
Assign_Merging(old, new) ==
    [i \in 1..Len(new) |->
        IF new[i].jobs = << >> /\ i <= Len(old) THEN old[i] ELSE new[i]]

\* KNOWLEDGE_BASE = results: the global is rebound to the run's dict
Assign(old, new) == new

\* how a scraping run can end: scrape_all_categories returns, or raises
RunEnds == { [kind |-> "returns", results |-> r] : r \in ScrapeResults }
           \cup { [kind |-> k, results |-> << >>] : k \in {"ConnectionError", "Exception"} }

RunOutcome(run) ==
    IF run.kind # "returns" THEN "raise"
    ELSE IF TotalJobs(run.results) = 0 THEN "zero" ELSE "some"

\* POST /api/refresh: route_refresh calls refresh_and_scrape_data, which scrapes
\* and, with at least one job, replaces KNOWLEDGE_BASE and enters
\* save_knowledge_base
Refresh(run) ==
    /\ rpc = "idle"
    /\ runs < MaxRuns
    /\ runs' = runs + 1
    /\ lastRun' = [path |-> "refresh", outcome |-> RunOutcome(run),
                   results |-> run.results, before |-> KNOWLEDGE_BASE]
    /\ IF run.kind = "ConnectionError"
       THEN /\ report' = Answer(FALSE, "network error", KNOWLEDGE_BASE)
            /\ UNCHANGED <<KNOWLEDGE_BASE, rpc, fileBefore, lastSave>>
       ELSE IF run.kind = "Exception"
       THEN /\ report' = Answer(FALSE, "scraper error", KNOWLEDGE_BASE)
            /\ UNCHANGED <<KNOWLEDGE_BASE, rpc, fileBefore, lastSave>>
       ELSE IF TotalJobs(run.results) > 0
       THEN /\ KNOWLEDGE_BASE' = Assign(KNOWLEDGE_BASE, run.results)
            /\ rpc' = "save"
            /\ fileBefore' = kbFile
            /\ lastSave' = "running"
            /\ UNCHANGED report
       ELSE /\ report' = Answer(FALSE, "found 0 jobs", KNOWLEDGE_BASE)
            /\ UNCHANGED <<KNOWLEDGE_BASE, rpc, fileBefore, lastSave>>
    /\ UNCHANGED <<kbFile, backupFile, fetchVars, parseVars, runVars, loadVars, auxVars>>

\* save_knowledge_base returned (its result is not looked at):
\* return True, "Successfully refreshed ...", results
RefreshReturns(saved) ==
    /\ rpc' = "idle"
    /\ lastSave' = IF saved THEN "saved" ELSE "failed"
    /\ report' = Answer(TRUE, "refreshed", KNOWLEDGE_BASE)

\* save_knowledge_base: if the file exists, os.replace it to the backup; a
\* failure of the replace is logged and the save goes on
SaveBackup(replaceFails) ==
    /\ rpc = "save"
    /\ IF kbFile.exists /\ ~replaceFails
       THEN /\ backupFile' = kbFile
            /\ kbFile' = Absent
       ELSE UNCHANGED <<kbFile, backupFile>>
    /\ rpc' = "open"
    /\ UNCHANGED <<KNOWLEDGE_BASE, report, runs, lastRun, fileBefore, lastSave,
                   fetchVars, parseVars, runVars, loadVars, auxVars>>

\* open(KNOWLEDGE_BASE_FILE, "w"): creates or truncates the file, or raises
SaveOpen(openFails) ==
    /\ rpc = "open"
    /\ IF openFails
       THEN /\ RefreshReturns(FALSE)
            /\ UNCHANGED kbFile
       ELSE /\ kbFile' = FileWith(<< >>)
            /\ rpc' = "dump"
            /\ UNCHANGED <<report, lastSave>>
    /\ UNCHANGED <<KNOWLEDGE_BASE, backupFile, runs, lastRun, fileBefore, fetchVars, parseVars, runVars, loadVars, auxVars>>

\* json.dump(KNOWLEDGE_BASE, f): writes the whole text, or raises after n tokens
SaveDump(n) ==
    /\ rpc = "dump"
    /\ n \in WritePoints(JsonText(KNOWLEDGE_BASE))
    /\ kbFile' = FileWith(SubSeq(JsonText(KNOWLEDGE_BASE), 1, n))
    /\ RefreshReturns(n = Len(JsonText(KNOWLEDGE_BASE)))
    /\ UNCHANGED <<KNOWLEDGE_BASE, backupFile, runs, lastRun, fileBefore, fetchVars, parseVars, runVars, loadVars, auxVars>>

\* the server process dies inside save_knowledge_base; during the dump, after
\* n tokens have reached the file
Crash(n) ==
    /\ rpc \in {"save", "open", "dump"}
    /\ IF rpc = "dump"
       THEN /\ n \in WritePoints(JsonText(KNOWLEDGE_BASE)) \ {Len(JsonText(KNOWLEDGE_BASE))}
            /\ kbFile' = FileWith(SubSeq(JsonText(KNOWLEDGE_BASE), 1, n))
       ELSE /\ n = 0
            /\ UNCHANGED kbFile
    /\ rpc' = "crashed"
    /\ lastSave' = "interrupted"
    /\ UNCHANGED <<KNOWLEDGE_BASE, backupFile, report, runs, lastRun, fileBefore,
                   fetchVars, parseVars, runVars, loadVars, auxVars>>

\* python scraper.py: scrape, print, then write knowledge_base.json
\* whatever the number of jobs; an exception is logged.  n tokens reach the
\* file; n = -1 when open raises.
CliRun(run, n) ==
    /\ rpc = "idle"
    /\ runs < MaxRuns
    /\ runs' = runs + 1
    /\ lastRun' = [path |-> "cli", outcome |-> RunOutcome(run),
                   results |-> run.results, before |-> KNOWLEDGE_BASE]
    /\ IF run.kind # "returns"
       THEN /\ n = -1
            /\ UNCHANGED kbFile
       ELSE /\ n \in {-1} \cup WritePoints(JsonText(run.results))
            /\ kbFile' = IF n = -1 THEN kbFile
                         ELSE FileWith(SubSeq(JsonText(run.results), 1, n))
    /\ UNCHANGED <<KNOWLEDGE_BASE, backupFile, rpc, report, fileBefore, lastSave,
                   fetchVars, parseVars, runVars, loadVars, auxVars>>

PersistInit ==
    /\ KNOWLEDGE_BASE = EmptyDict
    /\ kbFile = Absent
    /\ backupFile = Absent
    /\ rpc = "idle"
    /\ report = NoReport
    /\ runs = 0
    /\ lastRun = [path |-> "none", outcome |-> "none",
                  results |-> << >>, before |-> << >>]
    /\ fileBefore = Absent
    /\ lastSave = "none"

-----------------------------------------------------------------------------
(* scrape_category: from candidate nodes to records                        *)

base_url == "https://www.jobyaari.com"

\* A candidate node, as far as scrape_category looks at it: the text its
\* title selectors find ("" when they find none) and the href of its link
\* ("" when it has none).
NodeKinds ==
    { [title |-> "Clerk Post",    href |-> "/a"],
      [title |-> "Officer Post",  href |-> "https://www.jobyaari.com/a"],
      [title |-> "Clerk Post",    href |-> "mailto:hr@jobyaari.com"],
      [title |-> "CLERK POST",    href |-> "mailto:hr@jobyaari.com"],
      [title |-> "Advertisement", href |-> "/b"],
      [title |-> "",              href |-> "/b"],
      [title |-> "Jobs",          href |-> "/b"],
      [title |-> "Clerk Post",    href |-> ""] }

MaxNodes == 3                    \* longest list of candidate nodes explored

\* the max_jobs arguments explored; 7 is the default and the one refresh passes
MaxJobsChoices == {0, 1, 2, 7}

\* len(title)
TitleLength(t) ==
    CASE t = "" -> 0
      [] t = "Jobs" -> 4
      [] t = "Clerk Post" -> 10
      [] t = "CLERK POST" -> 10
      [] t = "Officer Post" -> 12
      [] t = "Advertisement" -> 13
      [] OTHER -> 10

\* re.search over spam_patterns, re.I
MatchesSpam(t) == t = "Advertisement"

\* urljoin(self.base_url, url): a relative reference is resolved against the
\* base, an absolute URL (whatever its scheme) is kept
urljoin(url) ==
    CASE url = "" -> base_url
      [] url = "/a" -> "https://www.jobyaari.com/a"
      [] url = "/b" -> "https://www.jobyaari.com/b"
      [] OTHER -> url

\* urlparse(abs_url): parsed.scheme and parsed.netloc
HasSchemeAndNetloc(u) ==
    u \in {base_url, "https://www.jobyaari.com/a", "https://www.jobyaari.com/b"}

\* a _parse_job_node that does not fill in the category
parse_job_node_NoCategory(node, cat) ==
    IF node.title = "" \/ TitleLength(node.title) < 5 THEN << >>
    ELSE << [title |-> node.title,
             category |-> "",
             url |-> IF node.href # "" THEN urljoin(node.href) ELSE base_url] >>

\* _parse_job_node: no record (the empty sequence) without a title of 5
\* characters, else the record, whose url falls back to base_url
parse_job_node(node, cat) ==
    IF node.title = "" \/ TitleLength(node.title) < 5 THEN << >>
    ELSE << [title |-> node.title,
             category |-> cat,
             url |-> IF node.href # "" THEN urljoin(node.href) ELSE base_url] >>

\* _is_valid_job
is_valid_job(job) ==
    /\ job.title # ""
    /\ TitleLength(job.title) >= 5
    /\ ~MatchesSpam(job.title)

\* _normalize_url: the absolute URL, or None (here "") when the URL is empty
\* or has no scheme and host
normalize_url(url) ==
    IF url = "" THEN ""
    ELSE IF HasSchemeAndNetloc(urljoin(url)) THEN urljoin(url) ELSE ""

\* a loop that never skips a URL it has seen
LoopStep_NoDedupe(st, node, cat) ==
    LET parsed == parse_job_node(node, cat) IN
    IF parsed = << >> \/ ~is_valid_job(parsed[1]) THEN [st EXCEPT !.kept = FALSE]
    ELSE LET job == parsed[1]
             job_url == normalize_url(job.url)
         IN [jobs |-> Append(st.jobs, job),
             seen_urls |-> st.seen_urls \cup {job_url},
             kept |-> TRUE]

\* one turn of the loop body over job_nodes (after the max_jobs test)
LoopStep(st, node, cat) ==
    LET parsed == parse_job_node(node, cat) IN
    IF parsed = << >> \/ ~is_valid_job(parsed[1]) THEN [st EXCEPT !.kept = FALSE]
    ELSE LET job == parsed[1]
             job_url == normalize_url(job.url)
         IN IF job_url # "" /\ job_url \in st.seen_urls
            THEN [st EXCEPT !.kept = FALSE]
            ELSE IF job_url # ""
            THEN [jobs |-> Append(st.jobs, [job EXCEPT !.url = job_url]),
                  seen_urls |-> st.seen_urls \cup {job_url},
                  kept |-> TRUE]
            ELSE [jobs |-> Append(st.jobs, job),
                  seen_urls |-> st.seen_urls,
                  kept |-> TRUE]

\* a cap that counts the candidates looked at instead of the records kept
CapReached_CountsCandidates(n, i, cap) == i > cap

\* if len(jobs) >= max_jobs: break   (n = len(jobs), i = position in job_nodes)
CapReached(n, i, cap) == n >= cap

RECURSIVE ScrapeLoop(_, _, _, _, _)
\* the whole loop, from position i on
ScrapeLoop(nodes, i, st, cat, cap) ==
    IF i > Len(nodes) \/ CapReached(Len(st.jobs), i, cap) THEN st.jobs
    ELSE ScrapeLoop(nodes, i + 1, LoopStep(st, nodes[i], cat), cat, cap)

LoopStart == [jobs |-> << >>, seen_urls |-> {}, kept |-> FALSE]

\* the records scrape_category returns for a page with these candidate nodes
ScrapeJobs(nodes, cat, cap) == ScrapeLoop(nodes, 1, LoopStart, cat, cap)

NodeLists == UNION { [1..n -> NodeKinds] : n \in 0..MaxNodes }

\* scrape_category has fetched and parsed a page and enters its loop
ParseInit ==
    /\ job_nodes \in NodeLists
    /\ category = Categories[1]
    /\ max_jobs \in MaxJobsChoices
    /\ idx = 1
    /\ jobs = << >>
    /\ seen_urls = {}
    /\ picked = << >>
    /\ ppc = "loop"

\* no scrape_category under way
ParseIdle ==
    /\ job_nodes = << >>
    /\ category = Categories[1]
    /\ max_jobs = 7
    /\ idx = 1
    /\ jobs = << >>
    /\ seen_urls = {}
    /\ picked = << >>
    /\ ppc = "done"

\* one turn of: for idx, node in enumerate(job_nodes)
ParseNode ==
    /\ ppc = "loop"
    /\ idx <= Len(job_nodes)
    /\ ~CapReached(Len(jobs), idx, max_jobs)
    /\ LET st == LoopStep([jobs |-> jobs, seen_urls |-> seen_urls, kept |-> FALSE],
                          job_nodes[idx], category)
       IN /\ jobs' = st.jobs
          /\ seen_urls' = st.seen_urls
          /\ picked' = IF st.kept THEN Append(picked, idx) ELSE picked
    /\ idx' = idx + 1
    /\ UNCHANGED <<job_nodes, category, max_jobs, ppc, fetchVars, persistVars,
                   runVars, loadVars, auxVars>>

\* the loop ends (nodes exhausted, or break): return jobs
ReturnJobs ==
    /\ ppc = "loop"
    /\ idx > Len(job_nodes) \/ CapReached(Len(jobs), idx, max_jobs)
    /\ ppc' = "done"
    /\ UNCHANGED <<job_nodes, category, max_jobs, idx, jobs, seen_urls, picked,
                   fetchVars, persistVars, runVars, loadVars, auxVars>>

ParseNext == ParseNode \/ ReturnJobs

-----------------------------------------------------------------------------
(* scrape_all_categories and the refresh that calls it                     *)

RunMaxJobs == 7                  \* max_jobs=7

\* the category lists explored: the one refresh passes, and a shorter one in
\* another order
CategoryLists == { Categories, <<"Science", "Engineering">> }

\* the candidate nodes of the category pages explored: a page without
\* postings, and one with a posting, an untitled node and an advertisement
RunPages ==
    { << >>,
      << [title |-> "Clerk Post", href |-> "/a"],
         [title |-> "", href |-> "/b"],
         [title |-> "Advertisement", href |-> "/b"] >> }

\* what the site holds for a category: nothing fetchable (every request for
\* it fails), or a page that every request gets with status 200
Sites == { [up |-> FALSE, nodes |-> << >>] }
         \cup { [up |-> TRUE, nodes |-> p] : p \in RunPages }

\* the ways session.get fails for a category the site does not serve
Failures == Outcomes \ {"200"}

\* results[cat] = ..., leaving failed categories out
StoreResult_DropsEmpty(res, cat, js) ==
    IF js = << >> THEN res ELSE Append(res, [cat |-> cat, jobs |-> js])

\* results[cat] = self.scrape_category(cat, max_jobs=max_jobs), or [] when it
\* raises
StoreResult(res, cat, js) == Append(res, [cat |-> cat, jobs |-> js])

\* scrape_category after fetch_page: no response gives [], a response is
\* parsed into records
CategoryJobs(resp, nodes, cat) ==
    IF resp = "resp" THEN ScrapeJobs(nodes, cat, RunMaxJobs) ELSE << >>

\* a run starts: scrape_all_categories(categories, max_jobs=7, delay=3) on a
\* fresh scraper
RunInit ==
    /\ categories \in CategoryLists
    /\ site \in [1..Len(categories) -> Sites]
    /\ results = << >>
    /\ cat_idx = 1
    /\ spc = "fetch"
    /\ fetchLog = << >>

\* no run under way
RunIdle ==
    /\ categories = Categories
    /\ site = [i \in 1..Len(Categories) |-> [up |-> FALSE, nodes |-> << >>]]
    /\ results = << >>
    /\ cat_idx = 1
    /\ spc = "idle"
    /\ fetchLog = << >>

\* the answer of the site to a request for the current category
Answers(out) ==
    IF site[cat_idx].up THEN out = "200" ELSE out \in Failures

\* scrape_category(cat): resp = self.fetch_page(url)
RunFetch(out, jit, hdr) ==
    /\ spc = "fetch"
    /\ fpc = "idle"
    /\ Answers(out)
    /\ FetchFrame(0, << >>, << >>, out, jit, hdr)
    /\ spc' = IF fpc' = "idle" THEN "parse" ELSE "fetch"
    /\ UNCHANGED <<calls, max_retries, paused, persistVars, parseVars,
                   categories, site, results, cat_idx, fetchLog, loadVars, auxVars>>

\* fetch_page retries for the current category
RunFetchRetry(out, jit, hdr) ==
    /\ spc = "fetch"
    /\ fpc = "retry"
    /\ Answers(out)
    /\ FetchFrame(retry_count, trace, delays, out, jit, hdr)
    /\ spc' = IF fpc' = "idle" THEN "parse" ELSE "fetch"
    /\ UNCHANGED <<calls, max_retries, paused, persistVars, parseVars,
                   categories, site, results, cat_idx, fetchLog, loadVars, auxVars>>

\* scrape_category returns its records, scrape_all_categories stores them
\* and sleeps `delay` before the next category, or returns after the last
ScrapeCategoryReturns ==
    /\ spc = "parse"
    /\ results' = StoreResult(results, categories[cat_idx],
                              CategoryJobs(result, site[cat_idx].nodes,
                                           categories[cat_idx]))
    /\ fetchLog' = Append(fetchLog,
                          IF result = "resp" THEN "resp"
                          ELSE IF trace[Len(trace)].out = "refused" THEN "refused"
                          ELSE "failed")
    /\ IF cat_idx < Len(categories)
       THEN /\ circuit_breaker' = Later(circuit_breaker,
                                        CategoryDelaySeconds * TicksPerSecond)
            /\ cat_idx' = cat_idx + 1
            /\ spc' = "fetch"
       ELSE /\ spc' = "returned"
            /\ UNCHANGED <<circuit_breaker, cat_idx>>
    /\ UNCHANGED <<request_count, failed_requests, max_retries, fpc,
                   retry_count, result, calls, trace, delays, postSleep,
                   consecFails, hoReqs, paused, persistVars, parseVars,
                   categories, site, loadVars, auxVars>>

\* refresh_and_scrape_data after scrape_all_categories returned: with at
\* least one job it replaces KNOWLEDGE_BASE and enters save_knowledge_base,
\* else it returns False and route_refresh answers
RefreshRun ==
    /\ spc = "returned"
    /\ categories = Categories
    /\ rpc = "idle"
    /\ runs' = runs + 1
    /\ lastRun' = [path |-> "refresh",
                   outcome |-> IF TotalJobs(results) = 0 THEN "zero" ELSE "some",
                   results |-> results, before |-> KNOWLEDGE_BASE]
    /\ IF TotalJobs(results) > 0
       THEN /\ KNOWLEDGE_BASE' = Assign(KNOWLEDGE_BASE, results)
            /\ rpc' = "save"
            /\ fileBefore' = kbFile
            /\ lastSave' = "running"
            /\ UNCHANGED report
       ELSE /\ report' = Answer(FALSE, "found 0 jobs", KNOWLEDGE_BASE)
            /\ UNCHANGED <<KNOWLEDGE_BASE, rpc, fileBefore, lastSave>>
    /\ spc' = "refreshed"
    /\ UNCHANGED <<kbFile, backupFile, fetchVars, parseVars,
                   categories, site, results, cat_idx, fetchLog, loadVars, auxVars>>

-----------------------------------------------------------------------------
(* load_knowledge_base, and a save followed by a load                      *)

\* _get_empty_kb(): the four categories, each with an empty list
get_empty_kb == [i \in 1..Len(Categories) |-> [cat |-> Categories[i], jobs |-> << >>]]

\* position of the first "]" of toks, 0 when there is none
RECURSIVE ClosingBracket(_, _)
ClosingBracket(toks, k) ==
    IF k > Len(toks) THEN 0
    ELSE IF toks[k] = "]" THEN k
    ELSE ClosingBracket(toks, k + 1)

RECURSIVE ParseEntries(_, _)
\* json.load after the opening brace: entries `cat [ jobs ]` up to the closing
\* brace, which must end the text; anything else raises
ParseEntries(toks, acc) ==
    IF toks = << >> THEN [ok |-> FALSE, kb |-> << >>]
    ELSE IF toks[1] = "}" THEN [ok |-> Len(toks) = 1, kb |-> acc]
    ELSE IF Len(toks) < 2 \/ toks[2] # "[" THEN [ok |-> FALSE, kb |-> << >>]
    ELSE LET k == ClosingBracket(toks, 3)
         IN IF k = 0 THEN [ok |-> FALSE, kb |-> << >>]
            ELSE ParseEntries(SubSeq(toks, k + 1, Len(toks)),
                              Append(acc, [cat |-> toks[1],
                                           jobs |-> SubSeq(toks, 3, k - 1)]))

\* json.load(f): the dict the text stands for, or ok = FALSE when it raises
json_load(txt) ==
    IF txt = << >> \/ txt[1] # "{" THEN [ok |-> FALSE, kb |-> << >>]
    ELSE ParseEntries(Tail(txt), << >>)

\* load_knowledge_base(): the new KNOWLEDGE_BASE and the value returned
load_knowledge_base(f) ==
    IF f.exists /\ json_load(f.text).ok /\ TotalJobs(json_load(f.text).kb) > 0
    THEN [kb |-> json_load(f.text).kb, ret |-> "True"]
    ELSE [kb |-> EmptyDict, ret |-> "False"]

\* the files a process can find when it starts: none, an empty one, a
\* truncated one, and a complete one
FilesFound ==
    LET full == JsonText([i \in 1..Len(Categories) |->
                             [cat |-> Categories[i], jobs |-> <<"j1">>]])
    IN { Absent, FileWith(<< >>), FileWith(SubSeq(full, 1, Len(full) \div 2)),
         FileWith(full) }

\* a process that is about to save a KNOWLEDGE_BASE, or one that has just
\* started and has saved nothing
LoadInit ==
    /\ kbFile \in FilesFound
    /\ \/ rpc = "save" /\ KNOWLEDGE_BASE \in ScrapeResults \cup {EmptyDict}
       \/ rpc = "idle" /\ KNOWLEDGE_BASE = EmptyDict
    /\ lastSave = IF rpc = "save" THEN "running" ELSE "none"
    /\ kb0 = KNOWLEDGE_BASE
    /\ loaded = "none"
    /\ backupFile = Absent
    /\ report = NoReport
    /\ runs = 0
    /\ lastRun = [path |-> "none", outcome |-> "none",
                  results |-> << >>, before |-> << >>]
    /\ fileBefore = kbFile

\* no load under study
LoadIdle ==
    /\ kb0 = EmptyDict
    /\ loaded = "none"

\* the process (re)starts and calls load_knowledge_base()
Load ==
    /\ rpc = "idle"
    /\ loaded = "none"
    /\ KNOWLEDGE_BASE' = load_knowledge_base(kbFile).kb
    /\ loaded' = load_knowledge_base(kbFile).ret
    /\ UNCHANGED <<kbFile, backupFile, rpc, report, runs, lastRun, fileBefore,
                   lastSave, kb0, fetchVars, parseVars, runVars, auxVars>>

-----------------------------------------------------------------------------
(* _find_job_nodes: the selector cascade                                    *)

\* the kinds of element explored: a tag, with a class or without
ElementKinds ==
    {"article.post", "div.job-listing", "li.job", "div.card", "li", "div"}

MaxElements == 3                 \* longest document explored

NodeLimit == 50                  \* nodes[:50]

MinNodes == 3                    \* len(nodes) > 2

\* selectors, in priority order, each with the explored kinds it matches
selectors ==
    << [sel |-> "article.post",          kinds |-> {"article.post"}],
       [sel |-> "div.job-listing",       kinds |-> {"div.job-listing"}],
       [sel |-> "div.job-item",          kinds |-> {}],
       [sel |-> "li.job",                kinds |-> {"li.job"}],
       [sel |-> "div[class*='job-']",    kinds |-> {"div.job-listing"}],
       [sel |-> "article[class*='job']", kinds |-> {}],
       [sel |-> ".entry-list .entry",    kinds |-> {}],
       [sel |-> "div.card",              kinds |-> {"div.card"}],
       [sel |-> "article",               kinds |-> {"article.post"}],
       [sel |-> "li",                    kinds |-> {"li.job", "li"}] >>

\* "div, article, li": every explored kind
FallbackKinds == ElementKinds

RECURSIVE SelectFrom(_, _, _)
\* soup.select: the positions of the matching elements, in document order
SelectFrom(doc, kinds, i) ==
    IF i > Len(doc) THEN << >>
    ELSE (IF doc[i] \in kinds THEN <<i>> ELSE << >>) \o SelectFrom(doc, kinds, i + 1)

select(doc, kinds) == SelectFrom(doc, kinds, 1)

\* nodes[:50]
Limit(sq) == SubSeq(sq, 1, IF Len(sq) < NodeLimit THEN Len(sq) ELSE NodeLimit)

\* a cascade content with two matches
Suitable_TwoSuffice(found) == found # << >> /\ Len(found) >= 2

\* if nodes and len(nodes) > 2
Suitable(found) == found # << >> /\ Len(found) >= MinNodes

Documents == UNION { [1..n -> ElementKinds] : n \in 0..MaxElements }

\* _find_job_nodes is entered with a parsed document
FindInit ==
    /\ soup \in Documents
    /\ sel_idx = 1
    /\ selected = << >>
    /\ used = 0
    /\ npc = "try"

\* no _find_job_nodes under way
FindIdle ==
    /\ soup = << >>
    /\ sel_idx = 1
    /\ selected = << >>
    /\ used = 0
    /\ npc = "done"

\* one turn of: for selector in selectors
TrySelector ==
    /\ npc = "try"
    /\ sel_idx <= Len(selectors)
    /\ LET found == select(soup, selectors[sel_idx].kinds)
       IN IF Suitable(found)
          THEN /\ selected' = Limit(found)
               /\ used' = sel_idx
               /\ npc' = "done"
               /\ UNCHANGED sel_idx
          ELSE /\ sel_idx' = sel_idx + 1
               /\ UNCHANGED <<selected, used, npc>>
    /\ UNCHANGED <<soup, qualVars, cacheVars, threadVars, fetchVars, persistVars, parseVars, runVars,
                   loadVars>>

\* return soup.select("div, article, li")[:50]
Fallback ==
    /\ npc = "try"
    /\ sel_idx > Len(selectors)
    /\ selected' = Limit(select(soup, FallbackKinds))
    /\ used' = 0
    /\ npc' = "done"
    /\ UNCHANGED <<soup, sel_idx, qualVars, cacheVars, threadVars, fetchVars, persistVars, parseVars,
                   runVars, loadVars>>

FindNext == TrySelector \/ Fallback

-----------------------------------------------------------------------------
(* _extract_qualification: the ordered table of degree patterns            *)

\* the words explored, as they stand between word boundaries in a text
Words ==
    {"PhD", "ph.d", "PhDs", "doctorate", "M.Tech", "b.tech", "me",
     "graduate", "Postgraduate", "officer"}

MaxWords == 3                    \* longest text explored, in words

\* a table that looks for Graduate first
qualifications_GraduateFirst ==
    << [name |-> "Graduate",     words |-> {"graduate"}],
       [name |-> "Ph.D",         words |-> {"PhD", "ph.d"}],
       [name |-> "M.Tech",       words |-> {"M.Tech"}],
       [name |-> "B.Tech",       words |-> {"b.tech"}],
       [name |-> "M.E",          words |-> {"me"}],
       [name |-> "Postgraduate", words |-> {"Postgraduate"}] >>

\* qualifications, in order, each with the explored words its pattern
\* matches under re.I and its word boundaries
qualifications ==
    << [name |-> "Ph.D",         words |-> {"PhD", "ph.d"}],
       [name |-> "M.Tech",       words |-> {"M.Tech"}],
       [name |-> "B.Tech",       words |-> {"b.tech"}],
       [name |-> "M.E",          words |-> {"me"}],
       [name |-> "B.E",          words |-> {}],
       [name |-> "M.Sc",         words |-> {}],
       [name |-> "B.Sc",         words |-> {}],
       [name |-> "MBA",          words |-> {}],
       [name |-> "MCA",          words |-> {}],
       [name |-> "B.Ed",         words |-> {}],
       [name |-> "M.Ed",         words |-> {}],
       [name |-> "M.Com",        words |-> {}],
       [name |-> "B.Com",        words |-> {}],
       [name |-> "Graduate",     words |-> {"graduate"}],
       [name |-> "Postgraduate", words |-> {"Postgraduate"}],
       [name |-> "Diploma",      words |-> {}] >>

\* re.search(pattern, text, re.I)
search(pattern, txt) == \E i \in 1..Len(txt) : txt[i] \in pattern.words

Texts == UNION { [1..n -> Words] : n \in 0..MaxWords }

\* _extract_qualification is entered with a text
QualInit ==
    /\ text \in Texts
    /\ q_idx = 1
    /\ qualification = "None"
    /\ qpc = "try"

\* no _extract_qualification under way
QualIdle ==
    /\ text = << >>
    /\ q_idx = 1
    /\ qualification = "None"
    /\ qpc = "done"

\* if not text: return None
EmptyText ==
    /\ qpc = "try"
    /\ text = << >>
    /\ qualification' = "None"
    /\ qpc' = "done"
    /\ UNCHANGED <<text, q_idx, findVars, cacheVars, threadVars, fetchVars, persistVars, parseVars,
                   runVars, loadVars>>

\* one turn of: for pattern, qual_name in qualifications
TryPattern ==
    /\ qpc = "try"
    /\ text # << >>
    /\ q_idx <= Len(qualifications)
    /\ IF search(qualifications[q_idx], text)
       THEN /\ qualification' = qualifications[q_idx].name
            /\ qpc' = "done"
            /\ UNCHANGED q_idx
       ELSE /\ q_idx' = q_idx + 1
            /\ UNCHANGED <<qualification, qpc>>
    /\ UNCHANGED <<text, findVars, cacheVars, threadVars, fetchVars, persistVars, parseVars, runVars,
                   loadVars>>

\* no pattern matched: return None
NoPattern ==
    /\ qpc = "try"
    /\ text # << >>
    /\ q_idx > Len(qualifications)
    /\ qualification' = "None"
    /\ qpc' = "done"
    /\ UNCHANGED <<text, q_idx, findVars, cacheVars, threadVars, fetchVars, persistVars, parseVars,
                   runVars, loadVars>>

QualNext == EmptyText \/ TryPattern \/ NoPattern

-----------------------------------------------------------------------------
(* query_ai_model and its response cache                                   *)

CACHE_DURATION == 300            \* seconds

LruMaxSize == 100                \* @lru_cache(maxsize=100)

SecondsPerDay == 86400           \* timedelta.seconds leaves the days out

MaxQueries == 3                  \* query_ai_model calls explored

\* the user messages explored
Queries == {"q1", "q2"}

\* ages are followed up to a day and a cache duration, and no further
AgeCap == SecondsPerDay + CACHE_DURATION + 1

\* the pauses between two calls, in seconds
Pauses == {1, CACHE_DURATION, SecondsPerDay}

NotStored == [stored |-> FALSE, age |-> 0]

\* (datetime.now() - timestamp).seconds < CACHE_DURATION
Fresh(age) == (age % SecondsPerDay) < CACHE_DURATION

\* the body of get_cached_response: the stored response ("resp") when there
\* is a fresh one, else None
Lookup(cache, q) ==
    IF cache[q].stored /\ Fresh(cache[q].age) THEN "resp" ELSE "None"

\* position of q in the memo, 0 when it is not there
MemoAt(memo, q) ==
    IF \E i \in 1..Len(memo) : memo[i].query = q
    THEN CHOOSE i \in 1..Len(memo) : memo[i].query = q
    ELSE 0

\* get_cached_response under @lru_cache(maxsize=100): a memoised query gets
\* its memoised value and becomes the most recent entry; another one is
\* computed and memoised, and the least recent entry leaves a full memo
get_cached_response(memo, cache, q) ==
    LET i == MemoAt(memo, q) IN
    IF i > 0
    THEN [value |-> memo[i].value,
          memo |-> SubSeq(memo, 1, i - 1) \o SubSeq(memo, i + 1, Len(memo))
                      \o <<memo[i]>>]
    ELSE LET entry == [query |-> q, value |-> Lookup(cache, q)]
             kept == IF Len(memo) >= LruMaxSize THEN Tail(memo) ELSE memo
         IN [value |-> entry.value, memo |-> Append(kept, entry)]

\* a server with data and an API key, before any query
CacheInit ==
    /\ REQUEST_CACHE = [q \in Queries |-> NotStored]
    /\ lru = << >>
    /\ lastQuery = [query |-> "none", source |-> "none", stored |-> FALSE, age |-> 0]
    /\ queries = 0
    /\ waited = FALSE

\* query_ai_model(q, KNOWLEDGE_BASE) with a non-empty KNOWLEDGE_BASE: answer
\* from the cache, or ask the AI service and store a successful response
QueryAiModel(q, success) ==
    /\ queries < MaxQueries
    /\ queries' = queries + 1
    /\ waited' = FALSE
    /\ LET got == get_cached_response(lru, REQUEST_CACHE, q) IN
       /\ lru' = got.memo
       /\ lastQuery' = [query |-> q,
                        source |-> IF got.value = "resp" THEN "cache" ELSE "service",
                        stored |-> REQUEST_CACHE[q].stored,
                        age |-> REQUEST_CACHE[q].age]
       /\ REQUEST_CACHE' =
             IF got.value = "None" /\ success
             THEN [REQUEST_CACHE EXCEPT ![q] = [stored |-> TRUE, age |-> 0]]
             ELSE REQUEST_CACHE
    /\ UNCHANGED <<findVars, qualVars, threadVars, fetchVars, persistVars, parseVars, runVars,
                   loadVars>>

\* time passes between two calls
Wait(d) ==
    /\ queries < MaxQueries
    /\ ~waited
    /\ waited' = TRUE
    /\ \E q \in Queries : REQUEST_CACHE[q].stored /\ REQUEST_CACHE[q].age < AgeCap
    /\ REQUEST_CACHE' =
          [q \in Queries |->
              IF REQUEST_CACHE[q].stored
              THEN [stored |-> TRUE,
                    age |-> IF REQUEST_CACHE[q].age + d > AgeCap THEN AgeCap
                            ELSE REQUEST_CACHE[q].age + d]
              ELSE NotStored]
    /\ UNCHANGED <<lru, lastQuery, queries, findVars, qualVars, threadVars, fetchVars,
                   persistVars, parseVars, runVars, loadVars>>

CacheNext ==
    \/ \E q \in Queries, success \in BOOLEAN : QueryAiModel(q, success)
    \/ \E d \in Pauses : Wait(d)

\* length of the longest JsonText of the model
MaxTokens == 2 + Len(Categories) * 4

-----------------------------------------------------------------------------
(* Two /api/refresh requests served by two threads of app.run(threaded=True) *)

Threads == {1, 2}

\* the successful runs the two requests can have made
ThreadRuns == { r \in ScrapeResults : TotalJobs(r) \in {1, Len(Categories)} }

\* the knowledge base the server was started with
OldBases == { r \in ScrapeResults : TotalJobs(r) = Len(Categories) - 1 }

\* the text of a file after w has been written at offset off: a write past
\* the end leaves a hole of NUL bytes
WriteAt(c, off, w) ==
    LET len == IF Len(c) > off + Len(w) THEN Len(c) ELSE off + Len(w) IN
    [i \in 1..len |->
        IF i > off /\ i <= off + Len(w) THEN w[i - off]
        ELSE IF i <= Len(c) THEN c[i]
        ELSE "NUL"]

\* no request is being served
ThreadIdle ==
    /\ tpc = [th \in Threads |-> "done"]
    /\ tresults = [th \in Threads |-> << >>]
    /\ handle = [th \in Threads |-> "none"]
    /\ dumping = [th \in Threads |-> << >>]
    /\ written = [th \in Threads |-> 0]
    /\ file0 = Absent

\* both requests have arrived; the server holds what load_knowledge_base gave
\* it at startup (an earlier file, or nothing)
ThreadInit ==
    /\ \/ /\ KNOWLEDGE_BASE = EmptyDict
          /\ kbFile = Absent
       \/ \E old \in OldBases :
             /\ KNOWLEDGE_BASE = old
             /\ kbFile = FileWith(JsonText(old))
    /\ backupFile = Absent
    /\ rpc = "idle"
    /\ report = NoReport
    /\ runs = 0
    /\ lastRun = [path |-> "none", outcome |-> "none",
                  results |-> << >>, before |-> << >>]
    /\ fileBefore = Absent
    /\ lastSave = "none"
    /\ tpc = [th \in Threads |-> "scrape"]
    /\ tresults = [th \in Threads |-> << >>]
    /\ handle = [th \in Threads |-> "none"]
    /\ dumping = [th \in Threads |-> << >>]
    /\ written = [th \in Threads |-> 0]
    /\ file0 = kbFile

threadRest == <<rpc, report, runs, lastRun, fileBefore, lastSave, fetchVars,
                parseVars, runVars, loadVars, findVars, qualVars, cacheVars>>

\* results = scraper.scrape_all_categories(...) with total_jobs > 0, then
\* KNOWLEDGE_BASE = results
ThreadAssign(th, run) ==
    /\ tpc[th] = "scrape"
    /\ tresults' = [tresults EXCEPT ![th] = run]
    /\ KNOWLEDGE_BASE' = Assign(KNOWLEDGE_BASE, run)
    /\ tpc' = [tpc EXCEPT ![th] = "exists"]
    /\ UNCHANGED <<kbFile, backupFile, handle, dumping, written, file0, threadRest>>

\* if os.path.exists(KNOWLEDGE_BASE_FILE)
ThreadExists(th) ==
    /\ tpc[th] = "exists"
    /\ tpc' = [tpc EXCEPT ![th] = IF kbFile.exists THEN "replace" ELSE "open"]
    /\ UNCHANGED <<KNOWLEDGE_BASE, kbFile, backupFile, tresults, handle, dumping,
                   written, file0, threadRest>>

\* os.replace(KNOWLEDGE_BASE_FILE, backup_file): the file, with whoever holds
\* it open, becomes the backup, and the old backup is unlinked; if the file
\* has gone since the test, the error is logged and the save goes on
ThreadReplace(th) ==
    /\ tpc[th] = "replace"
    /\ IF kbFile.exists
       THEN /\ backupFile' = kbFile
            /\ kbFile' = Absent
            /\ handle' = [u \in Threads |->
                             IF handle[u] = "file" THEN "backup"
                             ELSE IF handle[u] = "backup" THEN "gone"
                             ELSE handle[u]]
       ELSE UNCHANGED <<kbFile, backupFile, handle>>
    /\ tpc' = [tpc EXCEPT ![th] = "open"]
    /\ UNCHANGED <<KNOWLEDGE_BASE, tresults, dumping, written, file0, threadRest>>

\* open(KNOWLEDGE_BASE_FILE, "w"): creates the file, or truncates the one
\* that is there (which another thread may hold open)
ThreadOpen(th) ==
    /\ tpc[th] = "open"
    /\ kbFile' = FileWith(<< >>)
    /\ handle' = [handle EXCEPT ![th] = "file"]
    /\ written' = [written EXCEPT ![th] = 0]
    /\ tpc' = [tpc EXCEPT ![th] = "dump"]
    /\ UNCHANGED <<KNOWLEDGE_BASE, backupFile, tresults, dumping, file0, threadRest>>

\* json.dump(KNOWLEDGE_BASE, f): the global is read when the call is made
ThreadDump(th) ==
    /\ tpc[th] = "dump"
    /\ dumping' = [dumping EXCEPT ![th] = JsonText(KNOWLEDGE_BASE)]
    /\ tpc' = [tpc EXCEPT ![th] = "write"]
    /\ UNCHANGED <<KNOWLEDGE_BASE, kbFile, backupFile, tresults, handle, written,
                   file0, threadRest>>

\* the text reaches the file in one or two writes at the thread's own
\* offset; the file is closed after the last one
ThreadWrite(th, n) ==
    /\ tpc[th] = "write"
    /\ n \in WritePoints(dumping[th])
    /\ n > written[th]
    /\ LET w == SubSeq(dumping[th], written[th] + 1, n) IN
         /\ kbFile' = IF handle[th] = "file"
                       THEN FileWith(WriteAt(kbFile.text, written[th], w))
                       ELSE kbFile
         /\ backupFile' = IF handle[th] = "backup"
                           THEN FileWith(WriteAt(backupFile.text, written[th], w))
                           ELSE backupFile
    /\ written' = [written EXCEPT ![th] = n]
    /\ IF n = Len(dumping[th])
       THEN /\ tpc' = [tpc EXCEPT ![th] = "done"]
            /\ handle' = [handle EXCEPT ![th] = "none"]
       ELSE UNCHANGED <<tpc, handle>>
    /\ UNCHANGED <<KNOWLEDGE_BASE, tresults, dumping, file0, threadRest>>

ThreadNext ==
    \/ \E th \in Threads, run \in ThreadRuns : ThreadAssign(th, run)
    \/ \E th \in Threads : ThreadExists(th)
    \/ \E th \in Threads : ThreadReplace(th)
    \/ \E th \in Threads : ThreadOpen(th)
    \/ \E th \in Threads : ThreadDump(th)
    \/ \E th \in Threads, n \in 1..MaxTokens : ThreadWrite(th, n)

AuxIdle == FindIdle /\ QualIdle /\ CacheInit /\ ThreadIdle

Init == FetchInit /\ PersistInit /\ ParseIdle /\ RunIdle /\ LoadIdle /\ AuxIdle

Next ==
    \/ \E out \in Outcomes, jit \in Jitters, hdr \in RetryAfterHeaders :
          FetchPage(out, jit, hdr)
    \/ \E out \in Outcomes, jit \in Jitters, hdr \in RetryAfterHeaders :
          FetchPageRetry(out, jit, hdr)
    \/ \E d \in ElapseChoices : Elapse(d)

Spec == Init /\ [][Next]_vars

PersistNext ==
    \/ \E run \in RunEnds : Refresh(run)
    \/ \E b \in BOOLEAN : SaveBackup(b)
    \/ \E b \in BOOLEAN : SaveOpen(b)
    \/ \E n \in 0..MaxTokens : SaveDump(n)
    \/ \E n \in 0..MaxTokens : Crash(n)
    \/ \E run \in RunEnds, n \in (-1)..MaxTokens : CliRun(run, n)

SpecPersist == Init /\ [][PersistNext]_vars

LoadNext ==
    \/ \E replaceFails \in BOOLEAN : SaveBackup(replaceFails)
    \/ \E openFails \in BOOLEAN : SaveOpen(openFails)
    \/ \E n \in 0..MaxTokens : SaveDump(n)
    \/ Load

InitLoad == FetchInit /\ LoadInit /\ ParseIdle /\ RunIdle /\ AuxIdle

SpecLoad == InitLoad /\ [][LoadNext]_vars

InitParse == FetchInit /\ PersistInit /\ ParseInit /\ RunIdle /\ LoadIdle /\ AuxIdle

SpecParse == InitParse /\ [][ParseNext]_vars

RunNext ==
    \/ \E out \in Outcomes, jit \in Jitters, hdr \in RetryAfterHeaders :
          RunFetch(out, jit, hdr)
    \/ \E out \in Outcomes, jit \in Jitters, hdr \in RetryAfterHeaders :
          RunFetchRetry(out, jit, hdr)
    \/ ScrapeCategoryReturns
    \/ RefreshRun
    \/ \E replaceFails \in BOOLEAN : SaveBackup(replaceFails)
    \/ \E openFails \in BOOLEAN : SaveOpen(openFails)
    \/ \E n \in 0..MaxTokens : SaveDump(n)

InitRun == FetchInit /\ PersistInit /\ ParseIdle /\ RunInit /\ LoadIdle /\ AuxIdle

SpecRun == InitRun /\ [][RunNext]_vars

InitFind == FetchInit /\ PersistInit /\ ParseIdle /\ RunIdle /\ LoadIdle /\ FindInit
               /\ QualIdle /\ CacheInit /\ ThreadIdle

SpecFind == InitFind /\ [][FindNext]_vars

InitQual == FetchInit /\ PersistInit /\ ParseIdle /\ RunIdle /\ LoadIdle /\ FindIdle
               /\ QualInit /\ CacheInit /\ ThreadIdle

SpecQual == InitQual /\ [][QualNext]_vars

SpecCache == Init /\ [][CacheNext]_vars

SpecBreaker == Init /\ [][BreakerNext]_vars

InitThreads == FetchInit /\ ThreadInit /\ ParseIdle /\ RunIdle /\ LoadIdle /\ FindIdle
                  /\ QualIdle /\ CacheInit

SpecThreads == InitThreads /\ [][ThreadNext]_vars

-----------------------------------------------------------------------------
(* Properties of the fetch controller                                      *)

Last(sq) == sq[Len(sq)]

\* the current (or last) call sent a request while the breaker was HALF_OPEN
TrialCall == \E i \in 1..Len(trace) :
                 trace[i].out # "refused" /\ trace[i].state = "HALF_OPEN"

\* every frame of the call got the same outcome k, and the breaker refused none
AllFrames(k) == /\ trace # << >>
                /\ \A i \in 1..Len(trace) : trace[i].out = k

TransientKinds == {"timeout", "conn", "5xx", "429"}

\* C1: once three consecutive fetch_page calls have failed with no success in
\* between, a fetch_page call made while no more than the cooldown has passed
\* since the last recorded failure returns None at once and sends no request.
C1_ShortCircuit ==
    [][ ( /\ fpc = "idle"
          /\ consecFails >= failure_threshold
          /\ circuit_breaker.since_failure <= timeout
          /\ calls' = calls + 1 )
        => ( /\ result' = "None"
             /\ fpc' = "idle"
             /\ request_count' = request_count
             /\ Last(trace').out = "refused" ) ]_vars

\* a call refused after three consecutive failed calls
C1_Witness ==
    /\ consecFails > failure_threshold
    /\ trace # << >>
    /\ Last(trace).out = "refused"
    /\ request_count >= failure_threshold

\* C2 as claimed: while the breaker is HALF_OPEN and one request has already
\* been sent since it turned HALF_OPEN, no further request is sent.
C2_OneTrial ==
    [][ (circuit_breaker.state = "HALF_OPEN" /\ hoReqs >= 1)
        => request_count' = request_count ]_vars

\* C3: a fetch_page call that returns a response leaves the breaker CLOSED
\* with failure_count 0; a call that sent a request in HALF_OPEN and returns
\* None leaves the breaker OPEN with the last failure recorded at the return.
C3_Outcome ==
    /\ (fpc = "idle" /\ result = "resp")
          => ( /\ circuit_breaker.state = "CLOSED"
               /\ circuit_breaker.failure_count = 0 )
    /\ (fpc = "idle" /\ result = "None" /\ TrialCall /\ ~paused)
          => ( /\ circuit_breaker.state = "OPEN"
               /\ circuit_breaker.since_failure = 0 )

\* a failed trial: the call went out in HALF_OPEN and came back with None
C3_Witness ==
    /\ fpc = "idle"
    /\ result = "None"
    /\ TrialCall
    /\ circuit_breaker.state = "OPEN"

\* C4 as claimed: every request that does not end in HTTP 200 adds exactly one
\* to failure_count, and the breaker is OPEN once the count is at the threshold.
C4_EveryFailureCounts ==
    [][ (request_count' = request_count + 1 /\ Last(trace').out # "200")
        => ( /\ circuit_breaker'.failure_count = circuit_breaker.failure_count + 1
             /\ (circuit_breaker'.failure_count >= failure_threshold
                    => circuit_breaker'.state = "OPEN") ) ]_vars

C9_NonRetryable ==
    (trace # << >> /\ Last(trace).out = "404")
       => ( /\ fpc = "idle"
            /\ result = "None"
            /\ postSleep = 0
            /\ (Len(trace) = 1 => delays = << >>) )

\* a call that ended on such a status at its first attempt
C9_Witness ==
    /\ Len(trace) = 1
    /\ trace[1].out = "404"
    /\ result = "None"

\* C11 as claimed: a 429 that carries a Retry-After header is followed, while
\* fetch_page still has a retry left, by a sleep of at least that many seconds
\* and a retry; on the last attempt, where no retry follows, nothing is slept.
C11_RetryAfter ==
    (trace # << >> /\ Last(trace).out = "429" /\ Last(trace).hint # "absent")
       => IF Len(trace) <= StatusRetryLimit
          THEN /\ fpc = "retry"
               /\ postSleep >= Last(trace).secs * TicksPerSecond
          ELSE postSleep = 0

\* the largest backoff, in seconds: 2 ** 2
MaxBackoffSeconds == 4

\* C10: the backoff delays of one call never shrink and never exceed 4 s.
C10_Backoff ==
    /\ \A i \in 1..Len(delays) : delays[i] <= MaxBackoffSeconds * TicksPerSecond
    /\ \A i \in 1..Len(delays), j \in 1..Len(delays) :
           i <= j => delays[i] <= delays[j]

\* a call that backed off twice
C10_Witness == Len(delays) = 2 /\ delays[1] < delays[2]

-----------------------------------------------------------------------------
(* Properties of the persistence layer                                     *)

\* the file holds the complete text of a knowledge base
Committed(f) == f.exists /\ \E r \in ScrapeResults : f.text = JsonText(r)

\* C5 as claimed: when the server dies inside save_knowledge_base, the
\* knowledge base file that was there when the save began is still there with
\* the same content.
C5_InterruptedSaveKeepsFile ==
    (rpc = "crashed" /\ Committed(fileBefore)) => kbFile = fileBefore

\* C6 as claimed: when open or json.dump raises inside save_knowledge_base, the
\* file that was there when the save began is unchanged and the refresh does
\* not answer success.
C6_FailedSaveAborts ==
    (rpc = "idle" /\ lastRun.path = "refresh" /\ lastSave = "failed"
        /\ Committed(fileBefore))
       => (kbFile = fileBefore /\ ~report.success)

\* C7 as claimed: with a knowledge base on disk, a run that raises, or that
\* returns no job in any category, changes neither knowledge_base.json nor
\* KNOWLEDGE_BASE, from either entry point.
C7_FailedRunUntouched ==
    [][ (Committed(kbFile) /\ runs' = runs + 1
            /\ lastRun'.outcome \in {"zero", "raise"})
        => (kbFile' = kbFile /\ KNOWLEDGE_BASE' = KNOWLEDGE_BASE) ]_vars

TypeOK ==
    /\ circuit_breaker.state \in {"CLOSED", "OPEN", "HALF_OPEN"}
    /\ circuit_breaker.failure_count \in Nat
    /\ request_count \in Nat
    /\ failed_requests \in Nat
    /\ fpc \in {"idle", "retry"}
    /\ result \in {"None", "resp", "pending"}
    /\ rpc \in {"idle", "save", "open", "dump", "crashed"}
    /\ lastSave \in {"none", "running", "saved", "failed", "interrupted"}
    /\ kbFile.exists \in BOOLEAN
    /\ backupFile.exists \in BOOLEAN
-----------------------------------------------------------------------------
(* Properties of scrape_category's loop (SpecParse)                        *)

\* str.lower() of a stripped title
Lower(t) == IF t = "CLERK POST" THEN "clerk post"
            ELSE IF t = "Clerk Post" THEN "clerk post"
            ELSE IF t = "Officer Post" THEN "officer post"
            ELSE IF t = "Advertisement" THEN "advertisement"
            ELSE IF t = "Jobs" THEN "jobs"
            ELSE t

\* the deduplication key of a record: its normalized absolute URL when it has
\* one, else its lower-cased trimmed title
DedupKey(job) ==
    IF normalize_url(job.url) # "" THEN normalize_url(job.url) ELSE Lower(job.title)

\* C13 as claimed: no two records of one scrape_category output have the same
\* deduplication key.
C13_DedupKeyUnique ==
    ppc = "done" =>
        \A i \in 1..Len(jobs) : \A j \in 1..Len(jobs) :
            i < j => DedupKey(jobs[i]) # DedupKey(jobs[j])

\* node i is a valid candidate: it parses to a record that _is_valid_job accepts
ValidAt(i) ==
    LET parsed == parse_job_node(job_nodes[i], category)
    IN parsed # << >> /\ is_valid_job(parsed[1])

\* the canonical URL node i resolves to ("" when it has none)
CanonAt(i) == normalize_url(parse_job_node(job_nodes[i], category)[1].url)

\* node i is one of several valid candidates resolving to the same canonical URL
Shared(i) ==
    /\ ValidAt(i)
    /\ CanonAt(i) # ""
    /\ \E j \in 1..Len(job_nodes) : j # i /\ ValidAt(j) /\ CanonAt(j) = CanonAt(i)

\* the earliest valid candidate resolving to the canonical URL of node i
Earliest(i) ==
    CHOOSE e \in 1..Len(job_nodes) :
        /\ ValidAt(e) /\ CanonAt(e) = CanonAt(i)
        /\ \A f \in 1..(e - 1) : ~(ValidAt(f) /\ CanonAt(f) = CanonAt(i))

\* the positions in the output of the records with URL u
RecordsOf(u) == { k \in 1..Len(jobs) : jobs[k].url = u }

\* the output keeps document order
InDocumentOrder == \A k \in 1..(Len(picked) - 1) : picked[k] < picked[k + 1]

\* C14 as claimed: when several valid candidates resolve to one canonical URL
\* the output has exactly one record for it, the one from the earliest such
\* node, and the output is in document order.
C14_FirstSeenWins ==
    ppc = "done" =>
        /\ InDocumentOrder
        /\ \A i \in 1..Len(job_nodes) :
              Shared(i) => \E k \in 1..Len(jobs) :
                              /\ RecordsOf(CanonAt(i)) = {k}
                              /\ picked[k] = Earliest(i)

\* C14, amended: when several valid candidates resolve to one canonical URL
\* the output has at most one record for it, and exactly one unless max_jobs
\* records were already kept from the nodes before the earliest of them; that
\* record comes from the earliest such node; the output is in document order.
C14_FirstSeenUnderCap ==
    ppc = "done" =>
        /\ InDocumentOrder
        /\ \A i \in 1..Len(job_nodes) :
              Shared(i) =>
                 LET u == CanonAt(i)
                     e == Earliest(i)
                     before == { k \in 1..Len(picked) : picked[k] < e }
                 IN /\ Cardinality(RecordsOf(u)) <= 1
                    /\ \A k \in RecordsOf(u) : picked[k] = e
                    /\ RecordsOf(u) # {} <=> Cardinality(before) < max_jobs

\* a finished loop that went through two valid candidates with one canonical
\* URL and kept the record of the earlier one
C14_Witness ==
    /\ ppc = "done"
    /\ idx > Len(job_nodes)
    /\ \E i \in 1..Len(job_nodes) :
          /\ Shared(i)
          /\ Earliest(i) # i
          /\ RecordsOf(CanonAt(i)) # {}

\* the first n elements of s
Take(s, n) == SubSeq(s, 1, IF n < Len(s) THEN n ELSE Len(s))

\* what the loop keeps when the cap never binds
Uncapped == ScrapeJobs(job_nodes, category, Len(job_nodes) + 1)

\* C15: scrape_category returns the first max_jobs records of the accepted
\* sequence (rejected candidates do not count), so never more than max_jobs.
C15_Cap ==
    ppc = "done" =>
        /\ Len(jobs) <= max_jobs
        /\ jobs = Take(Uncapped, max_jobs)

\* a finished loop that the cap cut short, after a rejected candidate
C15_Witness ==
    /\ ppc = "done"
    /\ max_jobs > 0
    /\ Len(jobs) = max_jobs
    /\ Len(Uncapped) > max_jobs
    /\ Len(picked) < idx - 1

-----------------------------------------------------------------------------
(* Properties of a scraping run and its refresh (SpecRun)                  *)

\* scrape_all_categories has returned
RunReturned == spc \in {"returned", "refreshed"}

\* the records the page of the i-th listed category yields
PageJobs(i) == ScrapeJobs(site[i].nodes, categories[i], RunMaxJobs)

FixedCategories ==
    {"Engineering", "Science", "Commerce", "Education", "Uncategorized"}

\* refresh_and_scrape_data took the successful branch
RefreshSucceeded == spc = "refreshed" /\ lastRun.outcome = "some"

\* C16: after a successful refresh every record in KNOWLEDGE_BASE has one of
\* the fixed categories and a non-empty title.
C16_WellFormed ==
    RefreshSucceeded =>
        \A i \in 1..Len(KNOWLEDGE_BASE) :
            \A k \in 1..Len(KNOWLEDGE_BASE[i].jobs) :
                /\ KNOWLEDGE_BASE[i].jobs[k].category \in FixedCategories
                /\ KNOWLEDGE_BASE[i].jobs[k].title # ""

\* a successful refresh has answered, with records in KNOWLEDGE_BASE that
\* come from a page which also had an untitled node
C16_Witness ==
    /\ RefreshSucceeded
    /\ rpc = "idle" /\ report.success
    /\ \E i \in 1..Len(KNOWLEDGE_BASE) :
          /\ KNOWLEDGE_BASE[i].jobs # << >>
          /\ \E n \in 1..Len(site[i].nodes) : site[i].nodes[n].title = ""

\* C19 as claimed: a refresh whose run yields no record reports failure, with
\* the message of the "no postings recognised" case when the pages were
\* fetched with status 200 and another message when every fetch failed.
C19_ZeroRunReport ==
    (spc = "refreshed" /\ lastRun.outcome = "zero") =>
        /\ ~report.success
        /\ (\A i \in 1..Len(fetchLog) : fetchLog[i] = "resp")
              => report.message = "found 0 jobs"
        /\ (\A i \in 1..Len(fetchLog) : fetchLog[i] # "resp")
              => report.message # "found 0 jobs"

\* route_refresh has answered a refresh that took the successful branch
RefreshAnswered == RefreshSucceeded /\ rpc = "idle"

\* C20: a refresh whose run has records in some categories and none in
\* others reports success, and its total_jobs and per-category counts are the
\* sizes of the lists of that run's result, with a count of 0 for each empty
\* category.
C20_PartialSuccess ==
    (RefreshAnswered /\ \E i \in 1..Len(results) : results[i].jobs = << >>) =>
        /\ report.success
        /\ report.total_jobs = TotalJobs(results)
        /\ Len(report.categories) = Len(categories)
        /\ \A i \in 1..Len(categories) :
              report.categories[i] =
                  [cat |-> categories[i], n |-> Len(results[i].jobs)]

\* an answered refresh of a run with both empty and non-empty categories
C20_Witness ==
    /\ RefreshAnswered
    /\ \E i \in 1..Len(results) : results[i].jobs = << >>
    /\ \E i \in 1..Len(results) : results[i].jobs # << >>
    /\ report.total_jobs > 0

-----------------------------------------------------------------------------
(* Properties of save_knowledge_base and load_knowledge_base (SpecLoad)    *)

\* C17 as claimed: after a successful save_knowledge_base of kb, all-empty
\* values included, load_knowledge_base leaves KNOWLEDGE_BASE equal to kb.
C17_RoundTrip ==
    (loaded # "none" /\ lastSave = "saved") => KNOWLEDGE_BASE = kb0

\* C18 as claimed: when the file is absent or cannot be parsed,
\* load_knowledge_base leaves KNOWLEDGE_BASE as the mapping of every fixed
\* category to an empty list.
C18_LoadFallback ==
    (loaded # "none" /\ (~kbFile.exists \/ ~json_load(kbFile.text).ok))
        => KNOWLEDGE_BASE = get_empty_kb

-----------------------------------------------------------------------------
(* Properties of successive refreshes (SpecPersist)                        *)

\* C21: after a successful refresh KNOWLEDGE_BASE is exactly the mapping that
\* run produced; nothing of the previous KNOWLEDGE_BASE remains, also not in
\* a category the new run left empty.
C21_Wholesale ==
    (lastRun.path = "refresh" /\ lastRun.outcome = "some")
        => KNOWLEDGE_BASE = lastRun.results

\* a successful refresh over a KNOWLEDGE_BASE that had a record in a category
\* the new run left empty
C21_Witness ==
    /\ lastRun.path = "refresh" /\ lastRun.outcome = "some"
    /\ rpc = "idle"
    /\ \E i \in 1..Len(lastRun.before) :
          /\ lastRun.before[i].jobs # << >>
          /\ lastRun.results[i].jobs = << >>

-----------------------------------------------------------------------------
(* Properties of _find_job_nodes (SpecFind)                                 *)

\* the number of elements of the document the k-th selector matches
Matches(k) == Len(select(soup, selectors[k].kinds))

\* C22 as claimed: the document is served by the first selector, in priority
\* order, that matches at least 2 of its elements, so one matching exactly 2
\* is used rather than a later selector or the fallback.
C22_CascadeThreshold ==
    npc = "done" =>
        \A k \in 1..Len(selectors) :
            (Matches(k) >= 2 /\ \A j \in 1..(k - 1) : Matches(j) < 2)
                => used = k

\* C22, amended: the document is served by the first selector, in priority
\* order, that matches at least 3 of its elements, and by the generic fallback
\* when there is none; a selector matching exactly 2 elements is passed over.
C22_CascadeThreshold3 ==
    npc = "done" =>
        /\ \A k \in 1..Len(selectors) :
              (Matches(k) >= 3 /\ \A j \in 1..(k - 1) : Matches(j) < 3)
                  => /\ used = k
                     /\ selected = Limit(select(soup, selectors[k].kinds))
        /\ (\A k \in 1..Len(selectors) : Matches(k) < 3)
              => /\ used = 0
                 /\ selected = Limit(select(soup, FallbackKinds))

\* a document in which a selector matching exactly 2 elements was passed over
\* for a later selector
C22_Witness ==
    /\ npc = "done"
    /\ used > 1
    /\ \E k \in 1..(used - 1) : Matches(k) = 2

-----------------------------------------------------------------------------
(* Category of the records (SpecParse)                                     *)

\* a keyword of the category occurs in the text (case-insensitive substring):
\* none of the explored titles holds a keyword of any category
KeywordHit(cat, txt) ==
    \/ cat = "Engineering" /\ txt \in {"Civil Engineer", "GATE Technical Post"}
    \/ cat = "Science" /\ txt \in {"Research Scientist"}
    \/ cat = "Commerce" /\ txt \in {"Accounts Officer", "Bank Clerk"}
    \/ cat = "Education" /\ txt \in {"School Teacher"}

\* the first category, in enumeration order, with a keyword hit, else
\* Uncategorized
Classified(txt) ==
    IF \E i \in 1..Len(Categories) : KeywordHit(Categories[i], txt)
    THEN Categories[CHOOSE i \in 1..Len(Categories) :
                       /\ KeywordHit(Categories[i], txt)
                       /\ \A j \in 1..(i - 1) : ~KeywordHit(Categories[j], txt)]
    ELSE "Uncategorized"

\* C23 as claimed: the category of each surviving record is the first
\* category with a keyword hit in its text, whatever page it was scraped
\* from, and Uncategorized when no keyword hits.
C23_Classification ==
    ppc = "done" =>
        \A k \in 1..Len(jobs) : jobs[k].category = Classified(jobs[k].title)

-----------------------------------------------------------------------------
(* Properties of _extract_qualification (SpecQual)                          *)

\* the text holds a term of the table entry called n
Holds(n) ==
    \E k \in 1..Len(qualifications) :
        qualifications[k].name = n /\ search(qualifications[k], text)

\* the graduate-level entries of the table
GraduateLevel == {"B.Tech", "B.E", "B.Sc", "B.Ed", "B.Com", "Graduate"}

\* the name of the first entry of the table that matches, None without match
FirstMatch ==
    IF \E k \in 1..Len(qualifications) : search(qualifications[k], text)
    THEN qualifications[CHOOSE k \in 1..Len(qualifications) :
                           /\ search(qualifications[k], text)
                           /\ \A j \in 1..(k - 1) : ~search(qualifications[j], text)].name
    ELSE "None"

-----------------------------------------------------------------------------
(* Properties of the response cache (SpecCache)                            *)

\* C25 as claimed: a query whose response was stored less than CACHE_DURATION
\* ago is answered from the cache, without the AI service, and no response
\* older than CACHE_DURATION is ever returned, also for a query that was
\* looked up before anything was stored for it.
C25_CacheFreshness ==
    lastQuery.query # "none" =>
        /\ (lastQuery.stored /\ lastQuery.age < CACHE_DURATION)
              => lastQuery.source = "cache"
        /\ lastQuery.source = "cache"
              => (lastQuery.stored /\ lastQuery.age < CACHE_DURATION)

-----------------------------------------------------------------------------
(* Bounds on the requests of fetch_page (Spec)                             *)

\* The session's adapter retries by itself, Retry(total=max_retries,
\* status_forcelist=[429, ...], raise_on_status=False): a session.get that
\* ends with a 429 response has sent 1 + max_retries requests; behind any
\* other outcome there is at least one.  A refused frame sends nothing.
WireRequests(out) ==
    IF out = "refused" THEN 0
    ELSE IF out = "429" THEN 1 + max_retries
    ELSE 1

RECURSIVE WireTotal(_)
\* the requests a call has put on the wire, at least
WireTotal(tr) ==
    IF tr = << >> THEN 0 ELSE WireRequests(tr[1].out) + WireTotal(Tail(tr))

\* C26 as claimed: a fetch_page call issues at most 3 network requests,
\* whatever the outcomes of its attempts and the state of the breaker.
C26_BoundedFetch == WireTotal(trace) <= 3

\* C26, amended: a fetch_page call ends after at most 3 calls of session.get
\* (attempts 0, 1 and 2), whatever their outcomes and the state of the
\* breaker, so n calls of fetch_page make at most 3n calls of session.get;
\* request_count counts exactly those.
C26_BoundedCalls ==
    /\ Len(trace) <= 3
    /\ retry_count <= 2
    /\ \A i \in 1..Len(trace) : trace[i].out = "refused" => i = Len(trace)
    /\ request_count <= 3 * calls

\* a call that has used all three attempts
C26_Witness ==
    /\ fpc = "idle"
    /\ Len(trace) = 3
    /\ \A i \in 1..3 : trace[i].out # "refused"
    /\ request_count = 3 * calls

-----------------------------------------------------------------------------
(* Request accounting (Spec)                                               *)

\* the step is a fetch_page frame that the breaker refused
RefusedStep ==
    /\ calls' # calls \/ trace' # trace
    /\ trace' # << >>
    /\ Last(trace').out = "refused"

\* C27: in every reachable state 0 <= failed_requests <= request_count, and
\* a fetch_page that the open breaker refuses changes neither counter nor
\* any field of the breaker.
C27_Accounting ==
    /\ [](0 <= failed_requests /\ failed_requests <= request_count)
    /\ [][ RefusedStep => UNCHANGED <<request_count, failed_requests,
                                      circuit_breaker>> ]_vars

\* a refused call on a scraper that has counted both failed and other requests
C27_Witness ==
    /\ trace # << >>
    /\ Last(trace).out = "refused"
    /\ 0 < failed_requests
    /\ failed_requests < request_count

\* C28: whatever the order of call_failed, call_succeeded and can_attempt,
\* the breaker is CLOSED exactly when failure_count < failure_threshold, and
\* last_failure_time is set whenever the breaker is OPEN or HALF_OPEN.
C28_StateConsistency ==
    /\ (circuit_breaker.state = "CLOSED"
          <=> circuit_breaker.failure_count < failure_threshold)
    /\ (circuit_breaker.state \in {"OPEN", "HALF_OPEN"}
          => circuit_breaker.since_failure # None)

\* a breaker that failed again while HALF_OPEN and was then let through a
\* second time
C28_Witness ==
    /\ circuit_breaker.state = "HALF_OPEN"
    /\ circuit_breaker.failure_count > failure_threshold

\* a step that runs one invocation of fetch_page
FrameStep == calls' # calls \/ trace' # trace

\* the breaker state between can_attempt and the request of the invocation
\* that a step runs
StateAfterCanAttempt ==
    IF FrameStep THEN Last(trace').state ELSE circuit_breaker.state

\* C29: used by fetch_page, one call after the other, the breaker never goes
\* from OPEN directly to CLOSED; its state changes only from CLOSED to OPEN,
\* from OPEN to HALF_OPEN (and then only when more than timeout has passed
\* since the last failure), from HALF_OPEN to CLOSED and from HALF_OPEN to
\* OPEN.
C29_TransitionOrder ==
    [][ LET pre == circuit_breaker.state
            mid == StateAfterCanAttempt
            post == circuit_breaker'.state
        IN /\ pre # mid =>
                 /\ pre = "OPEN"
                 /\ mid = "HALF_OPEN"
                 /\ circuit_breaker.since_failure > timeout
           /\ mid # post =>
                 <<mid, post>> \in { <<"CLOSED", "OPEN">>,
                                     <<"HALF_OPEN", "CLOSED">>,
                                     <<"HALF_OPEN", "OPEN">> } ]_vars

\* a breaker that was opened by failures, became HALF_OPEN after the timeout
\* and was closed by the success of the trial request
C29_Witness ==
    /\ trace # << >>
    /\ Last(trace).state = "HALF_OPEN"
    /\ Last(trace).out = "200"
    /\ circuit_breaker.state = "CLOSED"
    /\ failed_requests >= failure_threshold

AllDone == \A th \in Threads : tpc[th] = "done"

\* C30 as claimed: once two concurrent successful refreshes have both
\* finished, knowledge_base.json is the complete serialization of one run's
\* result and equals KNOWLEDGE_BASE, and knowledge_base.json.backup holds
\* the file as it was before the two refreshes began.
C30_ConcurrentConsistent ==
    AllDone =>
        /\ \E th \in Threads : kbFile = FileWith(JsonText(tresults[th]))
        /\ kbFile = FileWith(JsonText(KNOWLEDGE_BASE))
        /\ file0.exists => backupFile = file0

=============================================================================
